---- MODULE Spec2Model ----
(***************************************************************************)
(* A model of drisk_api's GraphDiff (src/src/diff.rs) and of the payload   *)
(* delta NodeUpdate (src/src/node_update.rs).                              *)
(*                                                                         *)
(* A hashbrown HashMap<K, V> is a TLA+ function whose DOMAIN is the set of *)
(* keys, a HashSet<K> is a set.  Inner maps keep their own (possibly       *)
(* empty) domain, so that an entry `from -> {}` differs from no entry.     *)
(* An Option<V> is the empty tuple (None) or a one-element tuple (Some).   *)
(***************************************************************************)
EXTENDS Integers, FiniteSets, Sequences, TLC

\* ---------------------------------------------------------------- bounds
NumIds == 2
NumWeights == 2
MaxOps == 2
MaxOtherOps == 2
MaxBatch == 2
MaxPayloadOps == 1

Ids == 1..NumIds
Weights == 1..NumWeights
Pairs == Ids \X Ids

\* ------------------------------------------------------- hash map helpers
EmptyMap == [x \in {} |-> 0]
Keys(m) == DOMAIN m
MapInsert(m, k, v) == [x \in (DOMAIN m) \cup {k} |-> IF x = k THEN v ELSE m[x]]
MapRemove(m, k) == [x \in (DOMAIN m) \ {k} |-> m[x]]

\* -------------------------------------------------------------- NodeUpdate
None == << >>
Some(v) == << v >>

NodeUpdateDefault ==
  [label |-> None, size |-> None, url |-> None, red |-> None,
   green |-> None, blue |-> None, show_label |-> None]

\* `self += other` as `*self = other`.
NodeUpdateAddAssign_overwrites(self, other) == other

\* `self += other` where a field self specifies is kept.
NodeUpdateAddAssign_first_writer(self, other) ==
  [label      |-> IF self.label # None THEN self.label ELSE other.label,
   size       |-> IF self.size # None THEN self.size ELSE other.size,
   url        |-> IF self.url # None THEN self.url ELSE other.url,
   red        |-> IF self.red # None THEN self.red ELSE other.red,
   green      |-> IF self.green # None THEN self.green ELSE other.green,
   blue       |-> IF self.blue # None THEN self.blue ELSE other.blue,
   show_label |-> IF self.show_label # None THEN self.show_label ELSE other.show_label]

\* impl AddAssign for NodeUpdate: `self += other`, field by field.
NodeUpdateAddAssign(self, other) ==
  [label      |-> IF other.label # None THEN other.label ELSE self.label,
   size       |-> IF other.size # None THEN other.size ELSE self.size,
   url        |-> IF other.url # None THEN other.url ELSE self.url,
   red        |-> IF other.red # None THEN other.red ELSE self.red,
   green      |-> IF other.green # None THEN other.green ELSE self.green,
   blue       |-> IF other.blue # None THEN other.blue ELSE self.blue,
   show_label |-> IF other.show_label # None THEN other.show_label ELSE self.show_label]

\* An f32 is finite (an integer stands for its value) or infinite; the
\* model leaves NaN out, no two NaN being equal.
Finite(n) == << "finite", n >>
Infinity == << "infinite", 0 >>

\* The payload deltas the callers of the model pass in.
UpdateA == [NodeUpdateDefault EXCEPT !.label = Some(1), !.size = Some(Finite(1))]
UpdateB == [NodeUpdateDefault EXCEPT !.label = Some(2)]
UpdateC == [NodeUpdateDefault EXCEPT !.size = Some(Infinity)]
Updates == {NodeUpdateDefault, UpdateA, UpdateB, UpdateC}

\* --------------------------------------------------------------- GraphDiff
GraphDiffDefault ==
  [nodes |-> [new_or_updated |-> EmptyMap, deleted |-> {}],
   edges |-> [new_or_updated |-> EmptyMap, deleted |-> EmptyMap]]

\* is_empty that looks at the two update maps only.
is_empty_ignores_deleted(self) ==
  /\ Keys(self.nodes.new_or_updated) = {}
  /\ Keys(self.edges.new_or_updated) = {}

is_empty(self) ==
  /\ Keys(self.nodes.new_or_updated) = {}
  /\ self.nodes.deleted = {}
  /\ Keys(self.edges.new_or_updated) = {}
  /\ Keys(self.edges.deleted) = {}

\* add_node without `self.nodes.deleted.remove(node_id)`.
add_node_keeps_tombstone(self, node_id) ==
  LET nu == self.nodes.new_or_updated
  IN [self EXCEPT !.nodes.new_or_updated =
                     IF node_id \in Keys(nu) THEN nu
                     ELSE MapInsert(nu, node_id, NodeUpdateDefault)]

\* add_node with `insert` in place of `try_insert`: a pending delta is reset.
add_node_overwrites(self, node_id) ==
  [self EXCEPT !.nodes.new_or_updated = MapInsert(@, node_id, NodeUpdateDefault),
               !.nodes.deleted = @ \ {node_id}]

add_node(self, node_id) ==
  LET nu == self.nodes.new_or_updated
      ins == IF node_id \in Keys(nu) THEN nu
             ELSE MapInsert(nu, node_id, NodeUpdateDefault)
  IN [self EXCEPT !.nodes.new_or_updated = ins,
                  !.nodes.deleted = @ \ {node_id}]

\* add_or_update_node that overwrites a pending delta instead of `*node += update`.
add_or_update_node_overwrites(self, node_id, update) ==
  [self EXCEPT !.nodes.new_or_updated = MapInsert(@, node_id, update),
               !.nodes.deleted = @ \ {node_id}]

\* add_or_update_node that leaves a pending delta as it is, like add_node.
add_or_update_node_keeps_pending(self, node_id, update) ==
  LET nu == self.nodes.new_or_updated
      ins == IF node_id \in Keys(nu) THEN nu
             ELSE MapInsert(nu, node_id, update)
  IN [self EXCEPT !.nodes.new_or_updated = ins,
                  !.nodes.deleted = @ \ {node_id}]

add_or_update_node(self, node_id, update) ==
  LET nu == self.nodes.new_or_updated
      ins == IF node_id \in Keys(nu)
             THEN MapInsert(nu, node_id, NodeUpdateAddAssign(nu[node_id], update))
             ELSE MapInsert(nu, node_id, update)
  IN [self EXCEPT !.nodes.new_or_updated = ins,
                  !.nodes.deleted = @ \ {node_id}]

get_or_create_mut_node_update(self, node_id) ==
  IF node_id \notin Keys(self.nodes.new_or_updated)
  THEN add_node(self, node_id)
  ELSE self

set_node_update(self, node_id, update) ==
  [self EXCEPT !.nodes.new_or_updated = MapInsert(@, node_id, update),
               !.nodes.deleted = @ \ {node_id}]

\* delete_node without `to_weight.remove(&node_id)`.
delete_node_keeps_incoming(self, node_id) ==
  LET eu == MapRemove(self.edges.new_or_updated, node_id)
      hit == {from \in Keys(eu) : node_id \in Keys(eu[from])}
      ed == self.edges.deleted
  IN [nodes |-> [new_or_updated |-> MapRemove(self.nodes.new_or_updated, node_id),
                 deleted |-> self.nodes.deleted \cup {node_id}],
      edges |-> [new_or_updated |-> eu,
                 deleted |->
                   [from \in Keys(ed) \cup hit |->
                      IF from \in hit
                      THEN (IF from \in Keys(ed) THEN ed[from] ELSE {}) \cup {node_id}
                      ELSE ed[from]]]]

\* delete_node without `self.edges.new_or_updated.remove(node_id)`.
delete_node_keeps_outgoing(self, node_id) ==
  LET eu == self.edges.new_or_updated
      hit == {from \in Keys(eu) \ {node_id} : node_id \in Keys(eu[from])}
      ed == self.edges.deleted
  IN [nodes |-> [new_or_updated |-> MapRemove(self.nodes.new_or_updated, node_id),
                 deleted |-> self.nodes.deleted \cup {node_id}],
      edges |-> [new_or_updated |->
                   [from \in Keys(eu) |->
                      IF from = node_id THEN eu[from]
                      ELSE MapRemove(eu[from], node_id)],
                 deleted |->
                   [from \in Keys(ed) \cup hit |->
                      IF from \in hit
                      THEN (IF from \in Keys(ed) THEN ed[from] ELSE {}) \cup {node_id}
                      ELSE ed[from]]]]

delete_node(self, node_id) ==
  LET eu == MapRemove(self.edges.new_or_updated, node_id)
      hit == {from \in Keys(eu) : node_id \in Keys(eu[from])}
      ed == self.edges.deleted
  IN [nodes |-> [new_or_updated |-> MapRemove(self.nodes.new_or_updated, node_id),
                 deleted |-> self.nodes.deleted \cup {node_id}],
      edges |-> [new_or_updated |->
                   [from \in Keys(eu) |-> MapRemove(eu[from], node_id)],
                 deleted |->
                   [from \in Keys(ed) \cup hit |->
                      IF from \in hit
                      THEN (IF from \in Keys(ed) THEN ed[from] ELSE {}) \cup {node_id}
                      ELSE ed[from]]]]

\* add_edge whose guard reads `self.nodes.deleted.contains(from)` only.
add_edge_checks_from_only(self, from, to, weight) ==
  IF from \in self.nodes.deleted
  THEN [diff |-> self, ok |-> FALSE]
  ELSE
    LET ed0 == self.edges.deleted
        ed1 == IF from \in Keys(ed0) THEN MapInsert(ed0, from, ed0[from] \ {to}) ELSE ed0
        ed2 == IF from \in Keys(ed1) /\ ed1[from] = {} THEN MapRemove(ed1, from) ELSE ed1
        eu == self.edges.new_or_updated
        inner == IF from \in Keys(eu) THEN eu[from] ELSE EmptyMap
    IN [diff |-> [self EXCEPT !.edges.deleted = ed2,
                              !.edges.new_or_updated =
                                 MapInsert(eu, from, MapInsert(inner, to, weight))],
        ok |-> TRUE]

\* add_edge that also creates default node entries for its endpoints.
add_edge_creates_nodes(self, from, to, weight) ==
  IF from \in self.nodes.deleted \/ to \in self.nodes.deleted
  THEN [diff |-> self, ok |-> FALSE]
  ELSE
    LET ed0 == self.edges.deleted
        ed1 == IF from \in Keys(ed0) THEN MapInsert(ed0, from, ed0[from] \ {to}) ELSE ed0
        ed2 == IF from \in Keys(ed1) /\ ed1[from] = {} THEN MapRemove(ed1, from) ELSE ed1
        eu == self.edges.new_or_updated
        inner == IF from \in Keys(eu) THEN eu[from] ELSE EmptyMap
        nu == self.nodes.new_or_updated
    IN [diff |-> [nodes |-> [new_or_updated |->
                               [n \in Keys(nu) \cup {from, to} |->
                                  IF n \in Keys(nu) THEN nu[n] ELSE NodeUpdateDefault],
                             deleted |-> self.nodes.deleted],
                  edges |-> [new_or_updated |->
                               MapInsert(eu, from, MapInsert(inner, to, weight)),
                             deleted |-> ed2]],
        ok |-> TRUE]

\* add_edge that leaves a pending deletion of (from, to) in place.
add_edge_keeps_deletion(self, from, to, weight) ==
  IF from \in self.nodes.deleted \/ to \in self.nodes.deleted
  THEN [diff |-> self, ok |-> FALSE]
  ELSE
    LET eu == self.edges.new_or_updated
        inner == IF from \in Keys(eu) THEN eu[from] ELSE EmptyMap
    IN [diff |-> [self EXCEPT !.edges.new_or_updated =
                                 MapInsert(eu, from, MapInsert(inner, to, weight))],
        ok |-> TRUE]

\* add_edge returns Result<(), _>: the model returns the diff and the result.
add_edge(self, from, to, weight) ==
  IF from \in self.nodes.deleted \/ to \in self.nodes.deleted
  THEN [diff |-> self, ok |-> FALSE]
  ELSE
    LET ed0 == self.edges.deleted
        ed1 == IF from \in Keys(ed0) THEN MapInsert(ed0, from, ed0[from] \ {to}) ELSE ed0
        ed2 == IF from \in Keys(ed1) /\ ed1[from] = {} THEN MapRemove(ed1, from) ELSE ed1
        eu == self.edges.new_or_updated
        inner == IF from \in Keys(eu) THEN eu[from] ELSE EmptyMap
    IN [diff |-> [self EXCEPT !.edges.deleted = ed2,
                              !.edges.new_or_updated =
                                 MapInsert(eu, from, MapInsert(inner, to, weight))],
        ok |-> TRUE]

\* delete_edge that only records the deletion.
delete_edge_keeps_update(self, from, to) ==
  LET ed == self.edges.deleted
  IN [self EXCEPT !.edges.deleted =
        MapInsert(ed, from, (IF from \in Keys(ed) THEN ed[from] ELSE {}) \cup {to})]

\* delete_edge without `self.edges.new_or_updated.remove(from)`.
delete_edge_keeps_empty_entry(self, from, to) ==
  LET ed == self.edges.deleted
      eu == self.edges.new_or_updated
  IN [self EXCEPT !.edges.deleted =
                     MapInsert(ed, from, (IF from \in Keys(ed) THEN ed[from] ELSE {}) \cup {to}),
                  !.edges.new_or_updated =
                     IF from \in Keys(eu)
                     THEN MapInsert(eu, from, MapRemove(eu[from], to))
                     ELSE eu]

delete_edge(self, from, to) ==
  LET ed == self.edges.deleted
      eu == self.edges.new_or_updated
      ed1 == MapInsert(ed, from, (IF from \in Keys(ed) THEN ed[from] ELSE {}) \cup {to})
      eu1 == IF from \in Keys(eu) THEN MapInsert(eu, from, MapRemove(eu[from], to)) ELSE eu
      empty_inner_map == from \in Keys(eu) /\ Keys(eu1[from]) = {}
  IN [self EXCEPT !.edges.deleted = ed1,
                  !.edges.new_or_updated =
                     IF empty_inner_map THEN MapRemove(eu1, from) ELSE eu1]

clear(self) ==
  [self EXCEPT !.nodes.new_or_updated = EmptyMap,
               !.nodes.deleted = {},
               !.edges.new_or_updated = EmptyMap,
               !.edges.deleted = EmptyMap]

\* #[cfg(test)] fn is_internally_consistent
is_internally_consistent(self) ==
  /\ \A from \in Keys(self.edges.new_or_updated) :
       /\ from \notin self.nodes.deleted
       /\ \A to \in Keys(self.edges.new_or_updated[from]) : to \notin self.nodes.deleted
  /\ \A from \in Keys(self.edges.deleted) :
       /\ from \notin self.nodes.deleted
       /\ \A to \in self.edges.deleted[from] : to \notin self.nodes.deleted

\* ------------------------------------------------------ iteration orders
\* Iterating a HashMap or a HashSet visits its entries in an unspecified
\* order: every order is a possible outcome.
RECURSIVE Perms(_)
Perms(S) ==
  IF S = {} THEN { << >> }
  ELSE UNION { { << x >> \o p : p \in Perms(S \ {x}) } : x \in S }

\* A nested map is walked source by source: the pairs of one source are
\* visited in a row.
Grouped(order) ==
  \A i, j, k \in 1..Len(order) :
    (i < j /\ j < k /\ order[i][1] = order[k][1]) => order[j][1] = order[i][1]

\* The (from, to) pairs of a HashMap<Id, HashMap<Id, W>>.
EdgePairs(m) == { p \in Pairs : p[1] \in Keys(m) /\ p[2] \in Keys(m[p[1]]) }
\* The (from, to) pairs of a HashMap<Id, HashSet<Id>>.
DeletedPairs(m) == { p \in Pairs : p[1] \in Keys(m) /\ p[2] \in m[p[1]] }

EdgeOrders(m) == { o \in Perms(EdgePairs(m)) : Grouped(o) }
DeletedOrders(m) == { o \in Perms(DeletedPairs(m)) : Grouped(o) }

\* `for (from, to_weight) in edges { for (to, weight) in to_weight {
\*      self.add_edge(from, to, *weight)?; } }` along one visiting order.
RECURSIVE add_edges_from(_, _, _, _)
add_edges_from(self, edges, order, i) ==
  IF i > Len(order) THEN [diff |-> self, ok |-> TRUE]
  ELSE LET from == order[i][1]
           to == order[i][2]
           r == add_edge(self, from, to, edges[from][to])
       IN IF ~r.ok THEN [diff |-> self, ok |-> FALSE]
          ELSE add_edges_from(r.diff, edges, order, i + 1)

\* add_edges that rolls back the pairs already applied when one fails.
add_edges_atomic(self, edges, order) ==
  LET r == add_edges_from(self, edges, order, 1)
  IN IF r.ok THEN r ELSE [diff |-> self, ok |-> FALSE]

add_edges(self, edges, order) == add_edges_from(self, edges, order, 1)

RECURSIVE delete_edges_from(_, _, _)
delete_edges_from(self, order, i) ==
  IF i > Len(order) THEN self
  ELSE delete_edges_from(delete_edge(self, order[i][1], order[i][2]), order, i + 1)

\* delete_edges that stops, as add_edges does, at the first pair with a
\* tombstoned endpoint.
RECURSIVE delete_edges_checked_from(_, _, _)
delete_edges_checked_from(self, order, i) ==
  IF i > Len(order) THEN self
  ELSE IF order[i][1] \in self.nodes.deleted \/ order[i][2] \in self.nodes.deleted
       THEN self
       ELSE delete_edges_checked_from(delete_edge(self, order[i][1], order[i][2]),
                                      order, i + 1)

delete_edges_checked(self, edges, order) == delete_edges_checked_from(self, order, 1)

\* delete_edges always returns Ok(()).
delete_edges(self, edges, order) == delete_edges_from(self, order, 1)

\* unsafe fn add_edges_unchecked: `self.edges.new_or_updated.entry(from)
\* .or_default().extend(inner_map)` for every source of the batch; nothing
\* else is read or written, and the result is Ok(()).
add_edges_unchecked(self, edges) ==
  LET eu == self.edges.new_or_updated
  IN [diff |->
        [self EXCEPT !.edges.new_or_updated =
           [from \in Keys(eu) \cup Keys(edges) |->
              IF from \notin Keys(edges) THEN eu[from]
              ELSE [to \in (IF from \in Keys(eu) THEN Keys(eu[from]) ELSE {})
                            \cup Keys(edges[from]) |->
                      IF to \in Keys(edges[from]) THEN edges[from][to]
                      ELSE eu[from][to]]]],
      ok |-> TRUE]

\* ------------------------------------------------------------------ merge
\* impl AddAssign<NodeDiff> for GraphDiff: the updates of `nodes`, then its
\* deletions along the visiting order `dorder` of the deleted set.
RECURSIVE add_assign_updates(_, _, _)
add_assign_updates(self, nu, todo) ==
  IF todo = {} THEN self
  ELSE LET node_id == CHOOSE x \in todo : TRUE
       IN add_assign_updates(add_or_update_node(self, node_id, nu[node_id]),
                             nu, todo \ {node_id})

RECURSIVE add_assign_deletes(_, _, _)
add_assign_deletes(self, dorder, i) ==
  IF i > Len(dorder) THEN self
  ELSE add_assign_deletes(delete_node(self, dorder[i]), dorder, i + 1)

add_assign_nodes(self, nodes, dorder) ==
  add_assign_deletes(
    add_assign_updates(self, nodes.new_or_updated, Keys(nodes.new_or_updated)),
    dorder, 1)

\* impl AddAssign<EdgeDiff> for GraphDiff: `let _ = self.add_edge(..)` for
\* every updated edge, then delete_edge for every deleted edge.
RECURSIVE add_assign_edge_updates(_, _, _, _)
add_assign_edge_updates(self, eu, order, i) ==
  IF i > Len(order) THEN self
  ELSE LET from == order[i][1]
           to == order[i][2]
       IN add_assign_edge_updates(add_edge(self, from, to, eu[from][to]).diff,
                                  eu, order, i + 1)

\* The edge part of merge keeping the weight `self` already holds.
RECURSIVE add_assign_edge_updates_keep(_, _, _, _)
add_assign_edge_updates_keep(self, eu, order, i) ==
  IF i > Len(order) THEN self
  ELSE LET from == order[i][1]
           to == order[i][2]
           mine == self.edges.new_or_updated
           old == from \in Keys(mine) /\ to \in Keys(mine[from])
       IN add_assign_edge_updates_keep(
            IF old THEN self ELSE add_edge(self, from, to, eu[from][to]).diff,
            eu, order, i + 1)

add_assign_edges_first_writer(self, edges, uorder, xorder) ==
  delete_edges_from(
    add_assign_edge_updates_keep(self, edges.new_or_updated, uorder, 1),
    xorder, 1)

add_assign_edges(self, edges, uorder, xorder) ==
  delete_edges_from(
    add_assign_edge_updates(self, edges.new_or_updated, uorder, 1),
    xorder, 1)

\* Merge with the two steps swapped: `*self += other.edges; *self += other.nodes;`
add_assign_edges_first(self, other, dorder, uorder, xorder) ==
  add_assign_nodes(add_assign_edges(self, other.edges, uorder, xorder),
                   other.nodes, dorder)

\* impl AddAssign for GraphDiff: `*self += other.nodes; *self += other.edges;`
add_assign(self, other, dorder, uorder, xorder) ==
  add_assign_edges(add_assign_nodes(self, other.nodes, dorder),
                   other.edges, uorder, xorder)


\* ------------------------------------------------------------------ codec
\* The fields of NodeUpdate in declaration order.
FieldOrder == << "label", "size", "url", "red", "green", "blue", "show_label" >>

\* serde_json::to_string(v) for a NodeUpdate: the fields that are Some, in
\* declaration order (skip_serializing_if = "Option::is_none"), as
\* (name, value) members.  serde_json writes a non-finite float as null.
JsonValue(field, v) ==
  IF field = "size" /\ v[1] # "finite" THEN << "null" >> ELSE << "value", v >>

RECURSIVE to_json_from(_, _)
to_json_from(v, i) ==
  IF i > Len(FieldOrder) THEN << >>
  ELSE LET f == FieldOrder[i]
       IN (IF v[f] = None THEN << >> ELSE << << f, JsonValue(f, v[f][1]) >> >>)
          \o to_json_from(v, i + 1)

to_json(v) == to_json_from(v, 1)

\* serde_json::from_str::<NodeUpdate>: a missing member and a null member
\* both give None.
from_json(json) ==
  [f \in { FieldOrder[i] : i \in 1..Len(FieldOrder) } |->
     IF \E i \in 1..Len(json) : json[i][1] = f /\ json[i][2][1] = "value"
     THEN LET i == CHOOSE i \in 1..Len(json) : json[i][1] = f
          IN Some(json[i][2][2])
     ELSE None]

\* bincode writes a map or a set as its entries in iteration order.
\* An order of a nested map: the order of its keys and, per key, the order
\* of the inner collection.
InnerMapOrders(m) ==
  { f \in [Keys(m) -> UNION ({ Perms(Keys(m[k])) : k \in Keys(m) } \cup { { << >> } })] :
      \A k \in Keys(m) : f[k] \in Perms(Keys(m[k])) }
InnerSetOrders(m) ==
  { f \in [Keys(m) -> UNION ({ Perms(m[k]) : k \in Keys(m) } \cup { { << >> } })] :
      \A k \in Keys(m) : f[k] \in Perms(m[k]) }

CodecOrders(diff) ==
  [nodes : Perms(Keys(diff.nodes.new_or_updated)),
   deleted : Perms(diff.nodes.deleted),
   eu_keys : Perms(Keys(diff.edges.new_or_updated)),
   eu_inner : InnerMapOrders(diff.edges.new_or_updated),
   ed_keys : Perms(Keys(diff.edges.deleted)),
   ed_inner : InnerSetOrders(diff.edges.deleted)]

\* graph_diff_to_bytes: (json_map, deleted nodes, EdgeDiff), each collection
\* as the sequence of its entries.
graph_diff_to_bytes(diff, o) ==
  LET nu == diff.nodes.new_or_updated
      eu == diff.edges.new_or_updated
      ed == diff.edges.deleted
  IN << [i \in 1..Len(o.nodes) |-> << o.nodes[i], to_json(nu[o.nodes[i]]) >>],
        o.deleted,
        << [i \in 1..Len(o.eu_keys) |->
              LET from == o.eu_keys[i] IN
              << from, [j \in 1..Len(o.eu_inner[from]) |->
                          << o.eu_inner[from][j], eu[from][o.eu_inner[from][j]] >>] >>],
           [i \in 1..Len(o.ed_keys) |->
              << o.ed_keys[i], o.ed_inner[o.ed_keys[i]] >>] >> >>

\* Collecting the entries read back into a map or a set.
RECURSIVE MapFromEntries(_, _)
MapFromEntries(entries, i) ==
  IF i = 0 THEN EmptyMap
  ELSE MapInsert(MapFromEntries(entries, i - 1), entries[i][1], entries[i][2])

SetFromEntries(entries) == { entries[i] : i \in 1..Len(entries) }

\* bytes_to_graph_diff: the bytes written by graph_diff_to_bytes always
\* parse, so the result is Ok.
bytes_to_graph_diff(bytes) ==
  LET json_map == MapFromEntries(bytes[1], Len(bytes[1]))
      eus == [i \in 1..Len(bytes[3][1]) |->
                << bytes[3][1][i][1],
                   MapFromEntries(bytes[3][1][i][2], Len(bytes[3][1][i][2])) >>]
      eds == [i \in 1..Len(bytes[3][2]) |->
                << bytes[3][2][i][1], SetFromEntries(bytes[3][2][i][2]) >>]
  IN [diff |->
        [nodes |-> [new_or_updated |-> [k \in Keys(json_map) |-> from_json(json_map[k])],
                    deleted |-> SetFromEntries(bytes[2])],
         edges |-> [new_or_updated |-> MapFromEntries(eus, Len(eus)),
                    deleted |-> MapFromEntries(eds, Len(eds))]],
      ok |-> TRUE]

\* ------------------------------------------------------------ the inputs
\* Batches of add_edges: nested maps source -> destination -> weight holding
\* at most MaxBatch edges.
NestedEdges(S, wt) ==
  [from \in { p[1] : p \in S } |->
     [to \in { p[2] : p \in { q \in S : q[1] = from } } |-> wt[<< from, to >>]]]

EdgeBatches ==
  UNION { { NestedEdges(S, wt) : wt \in [S -> Weights] } :
          S \in { T \in SUBSET Pairs : Cardinality(T) <= MaxBatch } }

\* Batches of delete_edges: nested maps source -> set of destinations.
NestedDeleted(S) ==
  [from \in { p[1] : p \in S } |-> { p[2] : p \in { q \in S : q[1] = from } }]

DeletedBatches ==
  { NestedDeleted(S) : S \in { T \in SUBSET Pairs : Cardinality(T) <= MaxBatch } }

\* What a caller does with the `&mut T` of get_or_create_mut_node_update:
\* nothing (None) or an assignment through it (Some(update)).
HandleWrites == { None } \cup { Some(u) : u \in Updates }

write_handle(self, node_id, write) ==
  IF write = None THEN self
  ELSE [self EXCEPT !.nodes.new_or_updated = MapInsert(@, node_id, write[1])]

\* The diffs one safe public call away from `self`.
SafeCalls(self) ==
  { add_node(self, i) : i \in Ids }
  \cup { add_or_update_node(self, i, u) : i \in Ids, u \in Updates }
  \cup { write_handle(get_or_create_mut_node_update(self, i), i, h) :
           i \in Ids, h \in HandleWrites }
  \cup { set_node_update(self, i, u) : i \in Ids, u \in Updates }
  \cup { delete_node(self, i) : i \in Ids }
  \cup { add_edge(self, p[1], p[2], w).diff : p \in Pairs, w \in Weights }
  \cup { delete_edge(self, p[1], p[2]) : p \in Pairs }
  \cup UNION { { add_edges(self, b, o).diff : o \in EdgeOrders(b) } : b \in EdgeBatches }
  \cup UNION { { delete_edges(self, b, o) : o \in DeletedOrders(b) } : b \in DeletedBatches }
  \cup { clear(self) }

\* The diffs built from an empty diff by at most n safe public calls.
RECURSIVE Built(_)
Built(n) ==
  IF n = 0 THEN { GraphDiffDefault }
  ELSE LET B == Built(n - 1) IN B \cup UNION { SafeCalls(b) : b \in B }

\* The right-hand operands of `+=`.
OtherDiffs == Built(MaxOtherOps)

\* ------------------------------------------------------ the state machine
\* d: the diff (`self`); pre: the diff before the last call; last: the last
\* call, its arguments and whether it returned Ok; nops: the calls so far.
VARIABLES d, pre, last, nops
vars == << d, pre, last, nops >>

Init ==
  /\ d = GraphDiffDefault
  /\ pre = GraphDiffDefault
  /\ last = [op |-> "new", arg |-> << >>, ok |-> TRUE]
  /\ nops = 0

Call(op, arg, diff, ok) ==
  /\ d' = diff
  /\ pre' = d
  /\ last' = [op |-> op, arg |-> arg, ok |-> ok]
  /\ nops' = nops + 1

AddNode ==
  /\ nops < MaxOps
  /\ \E i \in Ids : Call("add_node", << i >>, add_node(d, i), TRUE)

AddOrUpdateNode ==
  /\ nops < MaxOps
  /\ \E i \in Ids, u \in Updates :
    Call("add_or_update_node", << i, u >>, add_or_update_node(d, i, u), TRUE)

GetOrCreateMutNodeUpdate ==
  /\ nops < MaxOps
  /\ \E i \in Ids, h \in HandleWrites :
    Call("get_or_create_mut_node_update", << i, h >>,
         write_handle(get_or_create_mut_node_update(d, i), i, h), TRUE)

SetNodeUpdate ==
  /\ nops < MaxOps
  /\ \E i \in Ids, u \in Updates :
    Call("set_node_update", << i, u >>, set_node_update(d, i, u), TRUE)

DeleteNode ==
  /\ nops < MaxOps
  /\ \E i \in Ids : Call("delete_node", << i >>, delete_node(d, i), TRUE)

AddEdge ==
  /\ nops < MaxOps
  /\ \E p \in Pairs, w \in Weights :
    LET r == add_edge(d, p[1], p[2], w)
    IN Call("add_edge", << p[1], p[2], w >>, r.diff, r.ok)

DeleteEdge ==
  /\ nops < MaxOps
  /\ \E p \in Pairs : Call("delete_edge", << p[1], p[2] >>, delete_edge(d, p[1], p[2]), TRUE)

AddEdges ==
  /\ nops < MaxOps
  /\ \E b \in EdgeBatches : \E o \in EdgeOrders(b) :
    LET r == add_edges(d, b, o)
    IN Call("add_edges", << b, o >>, r.diff, r.ok)

DeleteEdges ==
  /\ nops < MaxOps
  /\ \E b \in DeletedBatches : \E o \in DeletedOrders(b) :
    Call("delete_edges", << b, o >>, delete_edges(d, b, o), TRUE)

Clear ==
  /\ nops < MaxOps
  /\ Call("clear", << >>, clear(d), TRUE)

\* `d += other`: `other` is a diff built through the same calls.
Merge ==
  /\ nops < MaxOps
  /\ \E other \in OtherDiffs :
    \E dorder \in Perms(other.nodes.deleted),
       uorder \in EdgeOrders(other.edges.new_or_updated),
       xorder \in DeletedOrders(other.edges.deleted) :
      Call("add_assign", << other, dorder >>, add_assign(d, other, dorder, uorder, xorder), TRUE)

\* PyGraphDiff::to_bytes then from_bytes: the diff is replaced by the one
\* read back from its own bytes.
FromBytes ==
  /\ nops < MaxOps
  /\ \E o \in CodecOrders(d) :
       LET bytes == graph_diff_to_bytes(d, o)
           r == bytes_to_graph_diff(bytes)
       IN Call("from_bytes", << bytes >>, r.diff, r.ok)

Next ==
  \/ AddNode
  \/ AddOrUpdateNode
  \/ GetOrCreateMutNodeUpdate
  \/ SetNodeUpdate
  \/ DeleteNode
  \/ AddEdge
  \/ DeleteEdge
  \/ AddEdges
  \/ DeleteEdges
  \/ Clear
  \/ Merge
  \/ FromBytes

Spec == Init /\ [][Next]_vars

\* ------------------------------------------- the payload merge on its own
\* Two values per field, so that `self` and `other` can disagree on each.
FirstValue ==
  [label |-> 1, size |-> Finite(1), url |-> 1, red |-> 1, green |-> 1,
   blue |-> 1, show_label |-> TRUE]
SecondValue ==
  [label |-> 2, size |-> Infinity, url |-> 2, red |-> 2, green |-> 2,
   blue |-> 2, show_label |-> FALSE]

\* Every NodeUpdate whose specified fields hold the given values.
NodeUpdatesOver(v) ==
  [label : {None, Some(v.label)}, size : {None, Some(v.size)},
   url : {None, Some(v.url)}, red : {None, Some(v.red)},
   green : {None, Some(v.green)}, blue : {None, Some(v.blue)},
   show_label : {None, Some(v.show_label)}]

\* A NodeUpdate on its own: d is the payload, pre the payload before the
\* last `+=` and last.arg its right operand.
InitPayload ==
  /\ d \in NodeUpdatesOver(FirstValue)
  /\ pre = d
  /\ last = [op |-> "new", arg |-> << >>, ok |-> TRUE]
  /\ nops = 0

PayloadAddAssign ==
  /\ nops < MaxPayloadOps
  /\ \E other \in NodeUpdatesOver(SecondValue) :
       Call("add_assign", << other >>, NodeUpdateAddAssign(d, other), TRUE)

NextPayload == PayloadAddAssign

SpecPayload == InitPayload /\ [][NextPayload]_vars

\* ------------------------------------------ the trusted bulk-load path
\* The safe calls together with the unsafe add_edges_unchecked, which a
\* caller can hand any batch.
AddEdgesUnchecked ==
  /\ nops < MaxOps
  /\ \E b \in EdgeBatches :
       LET r == add_edges_unchecked(d, b)
       IN Call("add_edges_unchecked", << b >>, r.diff, r.ok)

NextUnchecked ==
  \/ Next
  \/ AddEdgesUnchecked

SpecUnchecked == Init /\ [][NextUnchecked]_vars


\* ------------------------------------------------------------- properties
UpdatedEdges(self) == EdgePairs(self.edges.new_or_updated)
DeletedEdges(self) == DeletedPairs(self.edges.deleted)
Weight(self, p) == self.edges.new_or_updated[p[1]][p[2]]

\* C1: after any sequence of safe public mutations no entry of the edge
\* update map and no entry of the edge deletion map has a source or a
\* destination in the node-deletion set (is_internally_consistent).
C1_InternallyConsistent == is_internally_consistent(d)

\* C2: no node id is at once a key of the node update map and a member of
\* the node-deletion set.
C2_TombstoneExclusive ==
  Keys(d.nodes.new_or_updated) \cap d.nodes.deleted = {}

\* A tombstoned node has just been added again.
C2_Witness ==
  /\ last.op \in {"add_node", "add_or_update_node", "set_node_update",
                  "get_or_create_mut_node_update"}
  /\ last.arg[1] \in pre.nodes.deleted
  /\ last.arg[1] \in Keys(d.nodes.new_or_updated)

\* C3: add_edge(from, to, w) returns an error exactly when `from` or `to` is
\* in the node-deletion set, and then the whole diff is as before the call.
C3_RejectOnTombstone ==
  last.op = "add_edge" =>
    /\ ~last.ok <=> (last.arg[1] \in pre.nodes.deleted \/ last.arg[2] \in pre.nodes.deleted)
    /\ ~last.ok => d = pre

\* add_edge has failed on a tombstoned destination alone, in a diff that
\* holds edges.
C3_Witness ==
  /\ last.op = "add_edge"
  /\ ~last.ok
  /\ last.arg[1] \notin pre.nodes.deleted
  /\ last.arg[2] \in pre.nodes.deleted
  /\ DeletedEdges(pre) # {}

\* C4: after delete_node(id) the update map holds no edge from or to id;
\* every update edge s -> id with s # id is now in the deletion map; no
\* deletion is recorded for the removed edges id -> t; id is tombstoned and
\* has no pending update.
C4_CascadeOnDelete ==
  last.op = "delete_node" =>
    LET id == last.arg[1] IN
    /\ \A p \in UpdatedEdges(d) : p[1] # id /\ p[2] # id
    /\ \A s \in Ids \ {id} :
         << s, id >> \in UpdatedEdges(pre) => << s, id >> \in DeletedEdges(d)
    /\ \A t \in Ids :
         << id, t >> \in UpdatedEdges(pre) => << id, t >> \notin DeletedEdges(d)
    /\ id \in d.nodes.deleted
    /\ id \notin Keys(d.nodes.new_or_updated)

\* delete_node(id) has removed an incoming edge, an outgoing edge and a
\* pending update of id.
C4_Witness ==
  /\ last.op = "delete_node"
  /\ \E s \in Ids \ {last.arg[1]} : << s, last.arg[1] >> \in UpdatedEdges(pre)
  /\ \E t \in Ids \ {last.arg[1]} : << last.arg[1], t >> \in UpdatedEdges(pre)
  /\ last.arg[1] \in Keys(pre.nodes.new_or_updated)

\* ------------------------------------------------- applying a diff (C5)
\* A concrete graph: payloads of the nodes present, weights of the edges
\* present (every edge of a starting graph has weight 1).  Applying a diff removes the tombstoned nodes with their incident
\* edges, merges the node deltas into the payloads (creating absent nodes),
\* removes the deleted edges and upserts the updated edges.
Payloads == {NodeUpdateDefault, UpdateA}
Graphs ==
  UNION { { [nodes |-> n, edges |-> [p \in E |-> 1]] :
              n \in [N -> Payloads], E \in SUBSET (N \X N) } :
          N \in SUBSET Ids }

Apply(diff, G) ==
  LET dead == diff.nodes.deleted
      nu == diff.nodes.new_or_updated
      kept == Keys(G.nodes) \ dead
      nodes == [n \in kept \cup Keys(nu) |->
                  IF n \in Keys(nu)
                  THEN NodeUpdateAddAssign(
                         IF n \in kept THEN G.nodes[n] ELSE NodeUpdateDefault, nu[n])
                  ELSE G.nodes[n]]
      alive == { p \in Keys(G.edges) : p[1] \notin dead /\ p[2] \notin dead }
      left == alive \ DeletedEdges(diff)
      edges == [p \in left \cup UpdatedEdges(diff) |->
                  IF p \in UpdatedEdges(diff) THEN Weight(diff, p) ELSE G.edges[p]]
  IN [nodes |-> nodes, edges |-> edges]

\* C5: composition law: applying `d1 += d2` to any graph gives the graph
\* that applying d1 and then d2 gives.
C5_CompositionLaw ==
  last.op = "add_assign" =>
    \A G \in Graphs : Apply(d, G) = Apply(last.arg[1], Apply(pre, G))

\* ------------------------------------------------------- merge (C6 - C9)
Fields == {"label", "size", "url", "red", "green", "blue", "show_label"}
Other == last.arg[1]
MentionedEdges(self) == UpdatedEdges(self) \cup DeletedEdges(self)

\* C6: merge is last-writer-wins per edge.  When neither diff tombstones a
\* node: every update edge of d2 is in d1's update map with d2's weight and
\* not in d1's deletion map; every deleted edge of d2 is in d1's deletion
\* map and not in its update map; every edge of d1 that d2 does not mention
\* keeps its membership and weight.
C6_MergeEdgesLastWriterWins ==
  (last.op = "add_assign" /\ pre.nodes.deleted = {} /\ Other.nodes.deleted = {}) =>
    /\ \A p \in UpdatedEdges(Other) :
         /\ p \in UpdatedEdges(d)
         /\ Weight(d, p) = Weight(Other, p)
         /\ p \notin DeletedEdges(d)
    /\ \A p \in DeletedEdges(Other) :
         p \in DeletedEdges(d) /\ p \notin UpdatedEdges(d)
    /\ \A p \in Pairs \ MentionedEdges(Other) :
         /\ p \in UpdatedEdges(pre) => (p \in UpdatedEdges(d) /\ Weight(d, p) = Weight(pre, p))
         /\ p \in DeletedEdges(pre) => p \in DeletedEdges(d)

\* The case of test_add_assign_edges: d2 overwrites the weight of an edge of
\* d1, deletes another edge of d1 and leaves a third one alone.
C6_Witness ==
  /\ last.op = "add_assign" /\ pre.nodes.deleted = {} /\ Other.nodes.deleted = {}
  /\ \E p \in UpdatedEdges(pre) \cap UpdatedEdges(Other) : Weight(pre, p) # Weight(Other, p)
  /\ UpdatedEdges(pre) \cap DeletedEdges(Other) # {}
  /\ UpdatedEdges(pre) \ MentionedEdges(Other) # {}

\* C7: node part of merge.  A node updated in d2 has in d1 the delta d1 held
\* merged with d2's, d2's value winning per field, and is not tombstoned; a
\* node deleted in d2 is tombstoned in d1 and has no pending update; a node
\* tombstoned in d1 that d2 does not mention stays tombstoned.
C7_MergeNodes ==
  last.op = "add_assign" =>
    /\ \A n \in Keys(Other.nodes.new_or_updated) :
         /\ n \in Keys(d.nodes.new_or_updated)
         /\ n \notin d.nodes.deleted
         /\ \A f \in Fields :
              d.nodes.new_or_updated[n][f] =
                IF Other.nodes.new_or_updated[n][f] # None
                THEN Other.nodes.new_or_updated[n][f]
                ELSE IF n \in Keys(pre.nodes.new_or_updated)
                     THEN pre.nodes.new_or_updated[n][f]
                     ELSE None
    /\ \A n \in Other.nodes.deleted :
         n \in d.nodes.deleted /\ n \notin Keys(d.nodes.new_or_updated)
    /\ \A n \in pre.nodes.deleted \ (Keys(Other.nodes.new_or_updated) \cup Other.nodes.deleted) :
         n \in d.nodes.deleted

\* The case of test_add_assign_nodes: a node updated in both diffs gets a
\* delta that is neither diff's own, and d2 deletes a node d1 updates.
C7_Witness ==
  /\ last.op = "add_assign"
  /\ \E n \in Keys(pre.nodes.new_or_updated) \cap Keys(Other.nodes.new_or_updated) :
       /\ d.nodes.new_or_updated[n] # pre.nodes.new_or_updated[n]
       /\ d.nodes.new_or_updated[n] # Other.nodes.new_or_updated[n]
  /\ Keys(pre.nodes.new_or_updated) \cap Other.nodes.deleted # {}

\* C8: after `diff1 += diff2`, diff1 contains all nodes and edges of diff2,
\* each in the corresponding collection.
C8_MergeContainsOther ==
  last.op = "add_assign" =>
    /\ Keys(Other.nodes.new_or_updated) \subseteq Keys(d.nodes.new_or_updated)
    /\ Other.nodes.deleted \subseteq d.nodes.deleted
    /\ UpdatedEdges(Other) \subseteq UpdatedEdges(d)
    /\ DeletedEdges(Other) \subseteq DeletedEdges(d)

\* The diff after the node step of the last merge.
Mid == add_assign_nodes(pre, Other.nodes, last.arg[2])
\* The node-deletion set after the node step, from the two operands.
MidDeleted ==
  (pre.nodes.deleted \ Keys(Other.nodes.new_or_updated)) \cup Other.nodes.deleted
Skipped == { p \in UpdatedEdges(Other) : p[1] \in MidDeleted \/ p[2] \in MidDeleted }

\* C9: in a merge the node diff is applied before the edges; an update edge
\* of `other` is inserted exactly when neither endpoint is tombstoned after
\* the node step; a skipped edge raises no error and changes nothing, and
\* the other edge updates and the edge deletions are still applied.
C9_MergeSkipsTombstonedEdges ==
  last.op = "add_assign" =>
    /\ last.ok
    /\ d.nodes = Mid.nodes
    /\ d.nodes.deleted = MidDeleted
    /\ \A p \in UpdatedEdges(Other) :
         (p \notin Skipped) <=> (p \in UpdatedEdges(d) /\ Weight(d, p) = Weight(Other, p))
    /\ \A p \in DeletedEdges(Other) :
         p \in DeletedEdges(d) /\ p \notin UpdatedEdges(d)
    /\ \A p \in Pairs \ ((UpdatedEdges(Other) \ Skipped) \cup DeletedEdges(Other)) :
         /\ p \in UpdatedEdges(d) <=> p \in UpdatedEdges(Mid)
         /\ p \in UpdatedEdges(d) => Weight(d, p) = Weight(Mid, p)
         /\ p \in DeletedEdges(d) <=> p \in DeletedEdges(Mid)

\* A merge has skipped one update edge of `other`, inserted another one and
\* applied an edge deletion.
C9_Witness ==
  /\ last.op = "add_assign"
  /\ Skipped # {}
  /\ UpdatedEdges(Other) \ Skipped # {}
  /\ DeletedEdges(Other) # {}

\* --------------------------------------------------------- add_edges (C10)
BatchOrder == last.arg[2]
Tombstoned(p) == p[1] \in pre.nodes.deleted \/ p[2] \in pre.nodes.deleted
FirstFailing ==
  IF \E i \in 1..Len(BatchOrder) : Tombstoned(BatchOrder[i])
  THEN CHOOSE i \in 1..Len(BatchOrder) :
         /\ Tombstoned(BatchOrder[i])
         /\ \A j \in 1..(i - 1) : ~Tombstoned(BatchOrder[j])
  ELSE Len(BatchOrder) + 1

\* C10: add_edges is not atomic.  It fails exactly when a pair of the batch
\* has a tombstoned endpoint; the pairs visited before the first failing
\* pair are in the update map with the batch's weight and out of the
\* deletion map; the failing pair and the pairs after it are as before the
\* call; the node diff is unchanged.
C10_AddEdgesNotAtomic ==
  last.op = "add_edges" =>
    /\ ~last.ok <=> (\E p \in EdgePairs(last.arg[1]) : Tombstoned(p))
    /\ d.nodes = pre.nodes
    /\ \A i \in 1..Len(BatchOrder) :
         LET p == BatchOrder[i] IN
         IF i < FirstFailing
         THEN /\ p \in UpdatedEdges(d)
              /\ Weight(d, p) = last.arg[1][p[1]][p[2]]
              /\ p \notin DeletedEdges(d)
         ELSE /\ p \in UpdatedEdges(d) <=> p \in UpdatedEdges(pre)
              /\ p \in UpdatedEdges(d) => Weight(d, p) = Weight(pre, p)
              /\ p \in DeletedEdges(d) <=> p \in DeletedEdges(pre)

\* add_edges has committed a first pair, clearing its pending deletion, and
\* failed on the second.
C10_Witness ==
  /\ last.op = "add_edges"
  /\ ~last.ok
  /\ FirstFailing = 2
  /\ BatchOrder[1] \in DeletedEdges(pre)
  /\ BatchOrder[1] \in UpdatedEdges(d)

\* ------------------------------------------------------------- codec (C11)
\* C11: codec round trip: bytes_to_graph_diff(graph_diff_to_bytes(d))
\* succeeds and returns a diff equal to d.
C11_RoundTrip ==
  last.op = "from_bytes" => (last.ok /\ d = pre)

\* ---------------------------------------------------------- is_empty (C12)
\* The calls after which the diff holds content whatever it held before.
AddsContent ==
  \/ last.op \in { "add_node", "add_or_update_node", "set_node_update",
                   "delete_node", "delete_edge" }
  \/ last.op = "add_edge" /\ last.ok

\* C12: is_empty() is true exactly when the four collections are all empty;
\* it is true for a new diff and right after clear(); it is false after
\* add_node, add_or_update_node, set_node_update, delete_node, delete_edge or
\* a successful add_edge, and once false it stays false after every call
\* other than clear().
C12_IsEmpty ==
  /\ is_empty(d) <=> (d = GraphDiffDefault)
  /\ last.op \in { "new", "clear" } => is_empty(d)
  /\ AddsContent => ~is_empty(d)
  /\ (~is_empty(pre) /\ last.op # "clear") => ~is_empty(d)

\* A delete_node that removes the only pending update leaves the tombstone,
\* so the diff stays non-empty.
C12_Witness ==
  /\ last.op = "delete_node"
  /\ Keys(pre.nodes.new_or_updated) = { last.arg[1] }
  /\ Keys(d.nodes.new_or_updated) = {}
  /\ Keys(d.edges.new_or_updated) = {}
  /\ ~is_empty(d)

\* -------------------------------------------------- node accumulation (C13)
\* The calls that name one node and leave the payloads of the others alone.
NodeCalls ==
  { "add_node", "add_or_update_node", "set_node_update", "delete_node",
    "get_or_create_mut_node_update" }
EdgeCalls == { "add_edge", "delete_edge", "add_edges", "delete_edges" }

\* The pending delta of a node, and whether it has one.
Pending(self, n) == self.nodes.new_or_updated[n]
HasPending(self, n) == n \in Keys(self.nodes.new_or_updated)

\* C13: accumulation of add_or_update_node(id, d_1) .. (id, d_n), step by
\* step: each add_or_update_node(id, u) leaves, per field, u's value where u
\* specifies one and the earlier pending value (absent if none) elsewhere,
\* with id not tombstoned; add_node(id) and the calls on other ids and on
\* edges leave the pending delta and the tombstone of id as they were;
\* delete_node(id) discards the delta, and an add_or_update_node(id, u) on a
\* node without pending delta installs exactly u.
C13_Accumulate ==
  /\ last.op = "add_or_update_node" =>
       LET id == last.arg[1]
           u == last.arg[2]
       IN /\ HasPending(d, id)
          /\ id \notin d.nodes.deleted
          /\ \A f \in Fields :
               Pending(d, id)[f] =
                 IF u[f] # None THEN u[f]
                 ELSE IF HasPending(pre, id) THEN Pending(pre, id)[f]
                      ELSE None
          /\ ~HasPending(pre, id) => Pending(d, id) = u
  /\ last.op = "add_node" =>
       LET id == last.arg[1]
       IN /\ HasPending(d, id)
          /\ id \notin d.nodes.deleted
          /\ HasPending(pre, id) => Pending(d, id) = Pending(pre, id)
  /\ \A id \in Ids :
       (\/ last.op \in NodeCalls /\ last.arg[1] # id
        \/ last.op \in EdgeCalls) =>
         /\ HasPending(d, id) <=> HasPending(pre, id)
         /\ HasPending(pre, id) => Pending(d, id) = Pending(pre, id)
         /\ id \in d.nodes.deleted <=> id \in pre.nodes.deleted
  /\ last.op = "delete_node" => ~HasPending(d, last.arg[1])

\* An add_or_update_node on a pending delta whose result differs from the
\* pending delta and from the argument: fields of both survive.
C13_Witness ==
  /\ last.op = "add_or_update_node"
  /\ HasPending(pre, last.arg[1])
  /\ Pending(d, last.arg[1]) # Pending(pre, last.arg[1])
  /\ Pending(d, last.arg[1]) # last.arg[2]

\* ---------------------------------------------------------- add_node (C14)
\* C14: add_node(id) installs the default delta when id has no pending
\* update, leaves a pending delta unchanged, removes id from the deletion
\* set, and a second add_node(id) changes nothing.
C14_AddNode ==
  last.op = "add_node" =>
    LET id == last.arg[1]
    IN /\ HasPending(d, id)
       /\ Pending(d, id) = IF HasPending(pre, id) THEN Pending(pre, id)
                           ELSE NodeUpdateDefault
       /\ \A f \in Fields : ~HasPending(pre, id) => Pending(d, id)[f] = None
       /\ id \notin d.nodes.deleted
       /\ add_node(d, id) = d

\* add_node on a node whose pending delta specifies a field.
C14_Witness ==
  /\ last.op = "add_node"
  /\ HasPending(pre, last.arg[1])
  /\ Pending(pre, last.arg[1]) # NodeUpdateDefault
  /\ d = pre

\* --------------------------------------------- payload merge (C15, C16)
\* C15: the all-absent NodeUpdate is a two-sided identity of `+=`: merging
\* x into the default gives x, and merging the default into x gives x.
C15_DefaultIsIdentity ==
  last.op = "add_assign" =>
    /\ pre = NodeUpdateDefault => d = last.arg[1]
    /\ last.arg[1] = NodeUpdateDefault => d = pre

\* A delta with specified fields merged into the default payload.
C15_Witness ==
  /\ last.op = "add_assign"
  /\ pre = NodeUpdateDefault
  /\ \A f \in Fields : last.arg[1][f] # None
  /\ d = last.arg[1]

\* C16: `a += b` is last-writer-wins per field: each of the seven fields
\* has b's value when b specifies it and a's value (present or absent)
\* otherwise; deltas on disjoint fields combine to a delta holding the
\* fields of both.
C16_LastWriterWins ==
  last.op = "add_assign" =>
    LET a == pre
        b == last.arg[1]
    IN /\ \A f \in Fields : d[f] = IF b[f] # None THEN b[f] ELSE a[f]
       /\ (\A f \in Fields : a[f] = None \/ b[f] = None) =>
            \A f \in Fields :
              /\ a[f] # None => d[f] = a[f]
              /\ b[f] # None => d[f] = b[f]
              /\ (a[f] = None /\ b[f] = None) => d[f] = None

\* Both operands specify label with different values, only the left one
\* specifies size and only the right one url.
C16_Witness ==
  /\ last.op = "add_assign"
  /\ pre.label # None /\ last.arg[1].label # None
  /\ pre.label # last.arg[1].label
  /\ pre.size # None /\ last.arg[1].size = None
  /\ pre.url = None /\ last.arg[1].url # None
  /\ d.label = last.arg[1].label /\ d.size = pre.size /\ d.url = last.arg[1].url

\* ------------------------------------------- inner collections (C17, C18)
\* C17: no source key of the edge update map maps to an empty destination
\* map and no source key of the edge deletion map maps to an empty
\* destination set.
C17_NoEmptyInner ==
  /\ \A from \in Keys(d.edges.new_or_updated) :
       Keys(d.edges.new_or_updated[from]) # {}
  /\ \A from \in Keys(d.edges.deleted) : d.edges.deleted[from] # {}

\* C18: no ordered pair (from, to) is at once in the edge update map and in
\* the edge deletion map.
C18_EdgeExclusive ==
  UpdatedEdges(d) \cap DeletedEdges(d) = {}

\* delete_edge on an edge of the update map: the edge moves to the deletion
\* map.
C18_Witness ==
  /\ last.op = "delete_edge"
  /\ << last.arg[1], last.arg[2] >> \in UpdatedEdges(pre)
  /\ << last.arg[1], last.arg[2] >> \in DeletedEdges(d)
  /\ << last.arg[1], last.arg[2] >> \notin UpdatedEdges(d)

\* ------------------------------------------------- merge identity (C19)
\* C19: the empty diff is a two-sided identity of merge: `d += empty` leaves
\* d unchanged, and `empty += d` gives a diff equal to d, source keys of
\* both edge maps included.
C19_EmptyIsIdentity ==
  last.op = "add_assign" =>
    /\ Other = GraphDiffDefault => d = pre
    /\ pre = GraphDiffDefault => d = Other

\* ------------------------------------- edges and tombstoned nodes (C20)
\* No edge of the update map has a tombstoned source or destination.
NoUpdatedEdgeOnTombstone ==
  \A p \in UpdatedEdges(d) :
    p[1] \notin d.nodes.deleted /\ p[2] \notin d.nodes.deleted

\* The nodes whose tombstone the last call removed, and the edges it
\* brought into the update map.
Revived == pre.nodes.deleted \ d.nodes.deleted
Entered == UpdatedEdges(d) \ UpdatedEdges(pre)

\* C20 as stated: the update map never holds an edge with a tombstoned
\* endpoint, and an edge touching a tombstoned node re-enters the update
\* map only by add_node / add_or_update_node of the node followed by
\* add_edge: only these two calls remove a tombstone, and no single call
\* brings in an edge touching a node that was tombstoned before it.
C20_OnlyReAddThenAddEdge ==
  /\ NoUpdatedEdgeOnTombstone
  /\ \A n \in Revived :
       last.op \in { "add_node", "add_or_update_node" } /\ last.arg[1] = n
  /\ \A p \in Entered :
       p[1] \notin pre.nodes.deleted /\ p[2] \notin pre.nodes.deleted

\* C20, amended: the update map never holds an edge with a tombstoned
\* endpoint; a tombstone is removed only by add_node, add_or_update_node,
\* set_node_update or get_or_create_mut_node_update of that node, by
\* clear(), or by a merge whose right operand holds an update of the node;
\* an edge enters the update map only by add_edge / add_edges with neither
\* endpoint tombstoned before the call, or by a merge whose right operand
\* holds the edge.
C20_EdgesAvoidTombstones ==
  /\ NoUpdatedEdgeOnTombstone
  /\ \A n \in Revived :
       \/ /\ last.op \in { "add_node", "add_or_update_node", "set_node_update",
                           "get_or_create_mut_node_update" }
          /\ last.arg[1] = n
       \/ last.op = "clear"
       \/ last.op = "add_assign" /\ HasPending(Other, n)
  /\ \A p \in Entered :
       \/ /\ last.op \in { "add_edge", "add_edges" }
          /\ p[1] \notin pre.nodes.deleted /\ p[2] \notin pre.nodes.deleted
       \/ last.op = "add_assign" /\ p \in UpdatedEdges(Other)

\* A merge that removes the tombstone of a node and brings an edge touching
\* that node into the update map in one call.
C20_Witness ==
  /\ last.op = "add_assign"
  /\ \E p \in Entered : p[1] \in Revived \/ p[2] \in Revived

\* ---------------------------------------------------------- add_edge (C21)
\* C21: after a successful add_edge(from, to, w) the pair is in the update
\* map with weight w and not in the deletion map, the deletion-map entry of
\* `from` is gone if it became empty, every other edge of both maps is as
\* before, and a second add_edge with the same arguments changes nothing.
C21_AddEdgeSuccess ==
  (last.op = "add_edge" /\ last.ok) =>
    LET from == last.arg[1]
        to == last.arg[2]
        w == last.arg[3]
        p == << from, to >>
        ed0 == pre.edges.deleted
        ed1 == d.edges.deleted
    IN /\ p \in UpdatedEdges(d)
       /\ Weight(d, p) = w
       /\ p \notin DeletedEdges(d)
       /\ (from \in Keys(ed0) /\ ed0[from] \ {to} = {}) => from \notin Keys(ed1)
       /\ from \in Keys(ed1) => ed1[from] # {}
       /\ UpdatedEdges(d) \ {p} = UpdatedEdges(pre) \ {p}
       /\ \A q \in UpdatedEdges(d) \ {p} : Weight(d, q) = Weight(pre, q)
       /\ DeletedEdges(d) = DeletedEdges(pre) \ {p}
       /\ Keys(ed1) \ {from} = Keys(ed0) \ {from}
       /\ add_edge(d, from, to, w) = [diff |-> d, ok |-> TRUE]

\* add_edge on an edge that was the only pending deletion of its source:
\* the deletion-map entry of the source is pruned.
C21_Witness ==
  /\ last.op = "add_edge" /\ last.ok
  /\ last.arg[1] \in Keys(pre.edges.deleted)
  /\ pre.edges.deleted[last.arg[1]] = { last.arg[2] }
  /\ last.arg[1] \notin Keys(d.edges.deleted)
  /\ << last.arg[1], last.arg[2] >> \in UpdatedEdges(d)

\* ------------------------------------------------------- delete_edge (C22)
\* C22: delete_edge(from, to) always succeeds, tombstoned endpoints and
\* edges never added included: afterwards the pair is in the deletion map
\* and not in the update map, the update-map entry of `from` is gone if it
\* became empty, every other edge of both maps is as before, and a second
\* identical call changes nothing.
C22_DeleteEdge ==
  last.op = "delete_edge" =>
    LET from == last.arg[1]
        to == last.arg[2]
        p == << from, to >>
        eu0 == pre.edges.new_or_updated
        eu1 == d.edges.new_or_updated
    IN /\ last.ok
       /\ p \in DeletedEdges(d)
       /\ p \notin UpdatedEdges(d)
       /\ (from \in Keys(eu0) /\ Keys(eu0[from]) \ {to} = {}) => from \notin Keys(eu1)
       /\ from \in Keys(eu1) => Keys(eu1[from]) # {}
       /\ UpdatedEdges(d) = UpdatedEdges(pre) \ {p}
       /\ \A q \in UpdatedEdges(d) : Weight(d, q) = Weight(pre, q)
       /\ DeletedEdges(d) \ {p} = DeletedEdges(pre) \ {p}
       /\ Keys(eu1) \ {from} = Keys(eu0) \ {from}
       /\ d.nodes = pre.nodes
       /\ delete_edge(d, from, to) = d

\* delete_edge of an edge that was never added and whose source is
\* tombstoned.
C22_Witness ==
  /\ last.op = "delete_edge"
  /\ last.arg[1] \in pre.nodes.deleted
  /\ << last.arg[1], last.arg[2] >> \notin UpdatedEdges(pre)
  /\ << last.arg[1], last.arg[2] >> \notin DeletedEdges(pre)
  /\ << last.arg[1], last.arg[2] >> \in DeletedEdges(d)

\* ------------------------------------------------------ delete_edges (C23)
DeletedBatch == DeletedPairs(last.arg[1])

\* C23: delete_edges(batch) returns Ok and applies delete_edge to every pair
\* of the batch, whatever the visiting order and whatever is tombstoned:
\* every pair of the batch ends in the deletion map and out of the update
\* map, the other pairs are as before, and every visiting order gives the
\* same diff.
C23_DeleteEdgesTotal ==
  last.op = "delete_edges" =>
    /\ last.ok
    /\ DeletedEdges(d) = DeletedEdges(pre) \cup DeletedBatch
    /\ UpdatedEdges(d) = UpdatedEdges(pre) \ DeletedBatch
    /\ \A q \in UpdatedEdges(d) : Weight(d, q) = Weight(pre, q)
    /\ d.nodes = pre.nodes
    /\ \A o \in DeletedOrders(last.arg[1]) : delete_edges(pre, last.arg[1], o) = d

\* A batch of two pairs, the first one visited with a tombstoned endpoint,
\* the second one not yet in the deletion map.
C23_Witness ==
  /\ last.op = "delete_edges"
  /\ Len(BatchOrder) = 2
  /\ Tombstoned(BatchOrder[1])
  /\ BatchOrder[2] \notin DeletedEdges(pre)
  /\ BatchOrder[2] \in DeletedEdges(d)

\* ------------------------------------------------- frame conditions (C24)
\* The node entries of every id other than n are the same in self and other.
SameNodesExcept(self, other, n) ==
  \A m \in Ids \ {n} :
    /\ HasPending(self, m) <=> HasPending(other, m)
    /\ HasPending(self, m) => Pending(self, m) = Pending(other, m)
    /\ m \in self.nodes.deleted <=> m \in other.nodes.deleted

\* C24: add_node, add_or_update_node, set_node_update and
\* get_or_create_mut_node_update leave both edge maps unchanged and touch no
\* node entry other than the given id; add_edge, add_edges, delete_edge and
\* delete_edges leave the node update map and the node-deletion set
\* unchanged; delete_node(id) changes no node entry other than id.
C24_Frame ==
  /\ last.op \in { "add_node", "add_or_update_node", "set_node_update",
                   "get_or_create_mut_node_update" } =>
       /\ d.edges = pre.edges
       /\ SameNodesExcept(d, pre, last.arg[1])
  /\ last.op \in EdgeCalls => d.nodes = pre.nodes
  /\ last.op = "delete_node" => SameNodesExcept(d, pre, last.arg[1])

\* A successful add_edge between two nodes that have no node entry, before
\* or after the call.
C24_Witness ==
  /\ last.op = "add_edge" /\ last.ok
  /\ << last.arg[1], last.arg[2] >> \in UpdatedEdges(d)
  /\ ~HasPending(d, last.arg[1]) /\ ~HasPending(d, last.arg[2])
  /\ d.nodes = pre.nodes
  /\ d.edges # pre.edges

\* ----------------------------------------------- add_edges_unchecked (C25)
\* The caller contract: no source and no destination of the batch is
\* tombstoned.
Contract(self, edges) ==
  \A p \in EdgePairs(edges) :
    p[1] \notin self.nodes.deleted /\ p[2] \notin self.nodes.deleted

\* C25: under the caller contract add_edges_unchecked(batch) returns Ok and
\* leaves the diff as add_edges(batch) would from the same state, with no
\* edge in both edge maps and no empty inner map.
C25_UncheckedAsChecked ==
  (last.op = "add_edges_unchecked" /\ Contract(pre, last.arg[1])) =>
    /\ last.ok
    /\ \A o \in EdgeOrders(last.arg[1]) : add_edges(pre, last.arg[1], o).diff = d
    /\ UpdatedEdges(d) \cap DeletedEdges(d) = {}
    /\ \A from \in Keys(d.edges.new_or_updated) :
         Keys(d.edges.new_or_updated[from]) # {}
====
